---- MODULE Spec2Model ----
(***************************************************************************)
(* The BigQuery writer of the invoice pipeline                             *)
(* (functions/bigquery_writer/main.py): handle_invoice_extracted and its   *)
(* failure capture, with the persister and the telemetry recorder          *)
(* (bigquery_writer/writer.py) and the store adapters behind them.         *)
(*                                                                         *)
(* Strings are sequences of one-character strings, so that Path.stem,      *)
(* re.sub and the f-strings of _generate_error_filename are computed.      *)
(***************************************************************************)
EXTENDS Integers, Sequences, FiniteSets, TLC

\* ------------------------------------------------------------------ bounds
MaxAttempts == 2   \* deliveries (first deliveries and redeliveries) in a run
MaxTime == 2       \* the clock's last value; two ticks make one second

Invocations == {1, 2}

\* ----------------------------------------------------------------- strings
Digits == {"0", "1", "2", "3", "4", "5", "6", "7", "8", "9"}

Unknown == <<"u", "n", "k", "n", "o", "w", "n">>
PageTag == <<"_", "p", "a", "g", "e">>
ErrorSuffix == <<".", "e", "r", "r", "o", "r", ".", "j", "s", "o", "n">>

\* s[a..b], empty when b < a
Slice(s, a, b) == SubSeq(s, a, b)

\* a call in Python: the argument is evaluated once, before the body runs
Strict(F(_), x) == CHOOSE r \in {F(v) : v \in {x}} : TRUE

\* str.rfind(c): the last position of c in s, 0 when there is none
RFind(str, c) ==
    Strict(LAMBDA s :
               LET hits == {k \in 1..Len(s) : s[k] = c}
               IN  IF hits = {} THEN 0 ELSE CHOOSE k \in hits : \A j \in hits : j <= k,
           str)

\* the path with its trailing slashes dropped
TrimSlashes(str) ==
    Strict(LAMBDA s :
               LET ends == {k \in 1..Len(s) : s[k] # "/"}
               IN  IF ends = {} THEN <<>>
                   ELSE Slice(s, 1, CHOOSE k \in ends : \A j \in ends : j <= k),
           str)

\* PurePath.name: the last component of the path, trailing slashes dropped
PathName(str) ==
    Strict(LAMBDA trimmed : Slice(trimmed, RFind(trimmed, "/") + 1, Len(trimmed)),
           TrimSlashes(str))

\* PurePath.stem: the name without its last suffix; a leading or a trailing
\* dot starts no suffix
PathStem(str) ==
    Strict(LAMBDA name :
               Strict(LAMBDA dot :
                          IF 1 < dot /\ dot < Len(name) THEN Slice(name, 1, dot - 1) ELSE name,
                      RFind(name, ".")),
           PathName(str))

\* the number of digits s ends with
TrailingDigits(str) ==
    Strict(LAMBDA s :
               LET runs == {k \in 0..Len(s) :
                               \A j \in (Len(s) - k + 1)..Len(s) : s[j] \in Digits}
               IN  CHOOSE k \in runs : \A j \in runs : j <= k,
           str)

\* re.sub(r"_page\d+$", "", s)
StripPageSuffix(str) ==
    Strict(LAMBDA s :
               Strict(LAMBDA d :
                          LET cut == Len(s) - d - Len(PageTag)
                          IN  IF d >= 1 /\ cut >= 0
                                 /\ Slice(s, cut + 1, cut + Len(PageTag)) = PageTag
                              THEN Slice(s, 1, cut)
                              ELSE s,
                      TrailingDigits(s)),
           str)

\* datetime.now().strftime("%Y%m%d_%H%M%S"): the clock read to the second
Timestamp(t) == <<ToString(t \div 2)>>

\* `x and x != "unknown"`
Known(x) == x # <<>> /\ x # Unknown

\* the invoice id tried before the source file
GenerateErrorFilename_InvoiceFirst(src, inv, t) ==
    IF Known(inv)
    THEN inv \o ErrorSuffix
    ELSE IF Known(src)
         THEN StripPageSuffix(PathStem(src)) \o ErrorSuffix
         ELSE Unknown \o <<"_">> \o Timestamp(t) \o ErrorSuffix

\* _generate_error_filename, reading the clock at t when it reads it
GenerateErrorFilename(src, inv, t) ==
    IF Known(src)
    THEN StripPageSuffix(PathStem(src)) \o ErrorSuffix
    ELSE IF Known(inv)
         THEN inv \o ErrorSuffix
         ELSE Unknown \o <<"_">> \o Timestamp(t) \o ErrorSuffix

\* ---------------------------------------------------------------- messages
SF1 == <<"b", "/", "a", "_", "p", "a", "g", "e", "1", ".", "t">>
SF2 == <<"b", "/", "a", "_", "p", "a", "g", "e", "2", ".", "t">>
INV1 == <<"I", "1">>

SourceFiles == {SF1, SF2}
InvoiceIds == {INV1}

\* len(invoice.line_items) of the invoice with this id
LineItemCount(id) == 2

\* The Pub/Sub payloads delivered: one that does not decode, one whose
\* envelope fails InvoiceExtractedMessage, one whose extracted_data fails
\* ExtractedInvoice (page 2 of the document), and a valid one (page 1).
Messages ==
    {[kind |-> "malformed", source_file |-> Unknown, invoice_id |-> Unknown],
     [kind |-> "bad_envelope", source_file |-> SF1, invoice_id |-> INV1],
     [kind |-> "bad_invoice", source_file |-> SF2, invoice_id |-> Unknown],
     [kind |-> "valid", source_file |-> SF1, invoice_id |-> INV1]}

NoMessage == [kind |-> "none", source_file |-> Unknown, invoice_id |-> Unknown]

\* WriteResult
NoResult == [success |-> FALSE, is_duplicate |-> FALSE, rows_written |-> 0, error |-> "unset"]
Duplicate == [success |-> TRUE, is_duplicate |-> TRUE, rows_written |-> 0, error |-> "none"]
Written(n) == [success |-> TRUE, is_duplicate |-> FALSE, rows_written |-> n, error |-> "none"]
WriteFailed(why) == [success |-> FALSE, is_duplicate |-> FALSE, rows_written |-> 0, error |-> why]

VARIABLES
    pc,             \* where each invocation of the handler stands
    event,          \* the payload each invocation was delivered
    source_file,    \* the handler's local source_file
    invoice_id,     \* the handler's local invoice_id
    raw_message,    \* whether the local raw_message is bound
    message,        \* whether the local message is bound
    result,         \* the WriteResult of write_invoice_to_bigquery
    e,              \* the exception the handler caught: its type name
    invoices,       \* header rows in the invoices table, per invoice id
    line_items,     \* rows in the line-items table, per invoice id
    metrics,        \* the metrics table, in append order
    failed_bucket,  \* the failed bucket: object path -> error record
    now,            \* the clock when it was last read, in half seconds
    started,        \* deliveries so far
    recorder_calls, \* calls of write_extraction_metrics in this attempt
    appended,       \* success flags of the rows this attempt appended
    persister_calls,\* calls of write_invoice_to_bigquery in this attempt
    rows_by,        \* invoice rows this attempt inserted
    bucket_calls,   \* calls of _write_failure_to_bucket in this attempt
    bucket_puts,    \* objects this attempt put into the failed bucket
    last_key,       \* the path _generate_error_filename gave this attempt
    persisted_ok,   \* invoice ids some attempt's persist wrote in full
    prior_ok,       \* whether this attempt's persist began after such a write
    completed,      \* attempts whose handler has returned
    fn_in,          \* the arguments of a call of _generate_error_filename
    fn_out,         \* what that call returned
    hint_in,        \* the error of a call of _generate_remediation_hints
    hint_out        \* what that call returned

vars == <<pc, event, source_file, invoice_id, raw_message, message, result, e,
          invoices, line_items, metrics, failed_bucket, now, started,
          recorder_calls, appended, persister_calls, rows_by, bucket_calls,
          bucket_puts, last_key, persisted_ok, prior_ok, completed, fn_in, fn_out,
          hint_in, hint_out>>

locals == <<event, source_file, invoice_id, raw_message, message, result, e>>
tables == <<invoices, line_items>>
counts == <<recorder_calls, appended, persister_calls, rows_by, bucket_calls,
            bucket_puts, last_key>>
history == <<persisted_ok, prior_ok>>
call == <<fn_in, fn_out, hint_in, hint_out>>

HandlerInit ==
    /\ pc = [i \in Invocations |-> "idle"]
    /\ event = [i \in Invocations |-> NoMessage]
    /\ source_file = [i \in Invocations |-> Unknown]
    /\ invoice_id = [i \in Invocations |-> Unknown]
    /\ raw_message = [i \in Invocations |-> FALSE]
    /\ message = [i \in Invocations |-> FALSE]
    /\ result = [i \in Invocations |-> NoResult]
    /\ e = [i \in Invocations |-> "none"]
    /\ invoices = [id \in InvoiceIds |-> 0]
    /\ line_items = [id \in InvoiceIds |-> 0]
    /\ metrics = <<>>
    /\ failed_bucket = <<>>
    /\ now = 0
    /\ started = 0
    /\ recorder_calls = [i \in Invocations |-> 0]
    /\ appended = [i \in Invocations |-> <<>>]
    /\ persister_calls = [i \in Invocations |-> 0]
    /\ rows_by = [i \in Invocations |-> 0]
    /\ bucket_calls = [i \in Invocations |-> 0]
    /\ bucket_puts = [i \in Invocations |-> 0]
    /\ last_key = [i \in Invocations |-> <<>>]
    /\ persisted_ok = {}
    /\ prior_ok = [i \in Invocations |-> FALSE]
    /\ completed = 0

NoCall == [kind |-> "none", dir |-> <<>>, name |-> <<>>, page |-> <<>>,
           ext |-> <<>>, inv |-> <<>>, t |-> 0]
NoReturn == [returned |-> FALSE, path |-> <<>>]
NoError == [validation |-> FALSE, type |-> "none", errors |-> <<>>]
NoHints == [returned |-> FALSE, hints |-> <<>>]

Init ==
    /\ HandlerInit
    /\ fn_in = NoCall
    /\ fn_out = NoReturn
    /\ hint_in = NoError
    /\ hint_out = NoHints

\* --------------------------------------------------------------- the handler
Free(i) == pc[i] \in {"idle", "done", "escaped"}

\* Pub/Sub delivers a payload to the first free instance: the handler is
\* entered.
Receive(i, m) ==
    /\ Free(i)
    /\ \A j \in Invocations : j < i => ~Free(j)
    /\ started < MaxAttempts
    /\ started' = started + 1
    /\ pc' = [pc EXCEPT ![i] = "setup"]
    /\ event' = [event EXCEPT ![i] = m]
    /\ source_file' = [source_file EXCEPT ![i] = Unknown]
    /\ invoice_id' = [invoice_id EXCEPT ![i] = Unknown]
    /\ raw_message' = [raw_message EXCEPT ![i] = FALSE]
    /\ message' = [message EXCEPT ![i] = FALSE]
    /\ result' = [result EXCEPT ![i] = NoResult]
    /\ e' = [e EXCEPT ![i] = "none"]
    /\ recorder_calls' = [recorder_calls EXCEPT ![i] = 0]
    /\ appended' = [appended EXCEPT ![i] = <<>>]
    /\ persister_calls' = [persister_calls EXCEPT ![i] = 0]
    /\ rows_by' = [rows_by EXCEPT ![i] = 0]
    /\ bucket_calls' = [bucket_calls EXCEPT ![i] = 0]
    /\ bucket_puts' = [bucket_puts EXCEPT ![i] = 0]
    /\ last_key' = [last_key EXCEPT ![i] = <<>>]
    /\ prior_ok' = [prior_ok EXCEPT ![i] = FALSE]
    /\ UNCHANGED <<tables, metrics, failed_bucket, now, persisted_ok>>
    /\ UNCHANGED <<completed, call>>

\* get_config() and GCPBigQueryAdapter(...), before the try block: an
\* exception of either leaves the handler.
Setup(i) ==
    /\ pc[i] = "setup"
    /\ \E ok \in BOOLEAN :
         pc' = [pc EXCEPT ![i] = IF ok THEN "decode" ELSE "escaped"]
    /\ UNCHANGED <<locals, tables, metrics, failed_bucket, now, started, counts, history>>
    /\ UNCHANGED <<completed, call>>

\* the except clause binds e; control is at the failure path
\* the except clause going straight to the failed bucket
Raise_ToCapture(i, type) ==
    /\ pc' = [pc EXCEPT ![i] = "capture"]
    /\ e' = [e EXCEPT ![i] = type]

Raise(i, type) ==
    /\ pc' = [pc EXCEPT ![i] = "failed"]
    /\ e' = [e EXCEPT ![i] = type]

\* base64.b64decode and json.loads
Decode(i) ==
    /\ pc[i] = "decode"
    /\ IF event[i].kind = "malformed"
       THEN /\ Raise(i, "DecodeError")
            /\ UNCHANGED raw_message
       ELSE /\ pc' = [pc EXCEPT ![i] = "validate_message"]
            /\ raw_message' = [raw_message EXCEPT ![i] = TRUE]
            /\ UNCHANGED e
    /\ UNCHANGED <<event, source_file, invoice_id, message, result>>
    /\ UNCHANGED <<tables, metrics, failed_bucket, now, started, counts, history>>
    /\ UNCHANGED <<completed, call>>

\* InvoiceExtractedMessage.model_validate, then source_file is bound
\* the envelope validated without source_file being bound from it
ValidateMessage_KeepsSource(i) ==
    /\ pc[i] = "validate_message"
    /\ IF event[i].kind = "bad_envelope"
       THEN /\ Raise(i, "ValidationError")
            /\ UNCHANGED message
       ELSE /\ pc' = [pc EXCEPT ![i] = "validate_invoice"]
            /\ message' = [message EXCEPT ![i] = TRUE]
            /\ UNCHANGED e
    /\ UNCHANGED <<event, source_file, invoice_id, raw_message, result>>
    /\ UNCHANGED <<tables, metrics, failed_bucket, now, started, counts, history>>
    /\ UNCHANGED <<completed, call>>

ValidateMessage(i) ==
    /\ pc[i] = "validate_message"
    /\ IF event[i].kind = "bad_envelope"
       THEN /\ Raise(i, "ValidationError")
            /\ UNCHANGED <<message, source_file>>
       ELSE /\ pc' = [pc EXCEPT ![i] = "validate_invoice"]
            /\ message' = [message EXCEPT ![i] = TRUE]
            /\ source_file' = [source_file EXCEPT ![i] = event[i].source_file]
            /\ UNCHANGED e
    /\ UNCHANGED <<event, invoice_id, raw_message, result>>
    /\ UNCHANGED <<tables, metrics, failed_bucket, now, started, counts, history>>
    /\ UNCHANGED <<completed, call>>

\* ExtractedInvoice.model_validate, then invoice_id is bound
ValidateInvoice(i) ==
    /\ pc[i] = "validate_invoice"
    /\ IF event[i].kind = "bad_invoice"
       THEN /\ Raise(i, "ValidationError")
            /\ UNCHANGED invoice_id
       ELSE /\ pc' = [pc EXCEPT ![i] = "write_invoice"]
            /\ invoice_id' = [invoice_id EXCEPT ![i] = event[i].invoice_id]
            /\ UNCHANGED e
    /\ UNCHANGED <<event, source_file, raw_message, message, result>>
    /\ UNCHANGED <<tables, metrics, failed_bucket, now, started, counts, history>>
    /\ UNCHANGED <<completed, call>>

\* ------------------------------------------------------------- the persister
\* the adapter's exists(invoiceId): a header row with this id is stored
RowExists(id) == invoices[id] > 0

\* the duplicate check skipped: the rows are written whatever is stored
ExistsCheck_Blind(i) ==
    /\ pc[i] = "write_invoice"
    /\ persister_calls' = [persister_calls EXCEPT ![i] = @ + 1]
    /\ prior_ok' = [prior_ok EXCEPT ![i] = invoice_id[i] \in persisted_ok]
    /\ pc' = [pc EXCEPT ![i] = "write_header"]
    /\ UNCHANGED <<locals, tables, metrics, failed_bucket, now, started, persisted_ok>>
    /\ UNCHANGED <<recorder_calls, appended, rows_by, bucket_calls, bucket_puts, last_key>>
    /\ UNCHANGED <<completed, call>>

\* write_invoice_to_bigquery, step (a) and (b): the duplicate check
ExistsCheck(i) ==
    /\ pc[i] = "write_invoice"
    /\ persister_calls' = [persister_calls EXCEPT ![i] = @ + 1]
    /\ prior_ok' = [prior_ok EXCEPT ![i] = invoice_id[i] \in persisted_ok]
    /\ IF RowExists(invoice_id[i])
       THEN /\ result' = [result EXCEPT ![i] = Duplicate]
            /\ pc' = [pc EXCEPT ![i] = "check_result"]
       ELSE /\ pc' = [pc EXCEPT ![i] = "write_header"]
            /\ UNCHANGED result
    /\ UNCHANGED <<event, source_file, invoice_id, raw_message, message, e>>
    /\ UNCHANGED <<tables, metrics, failed_bucket, now, started, persisted_ok>>
    /\ UNCHANGED <<recorder_calls, appended, rows_by, bucket_calls, bucket_puts, last_key>>
    /\ UNCHANGED <<completed, call>>

\* step (c), first half: the header row is inserted, or the store refuses it
WriteHeader(i) ==
    /\ pc[i] = "write_header"
    /\ \E ok \in BOOLEAN :
         IF ~ok
         THEN /\ result' = [result EXCEPT ![i] = WriteFailed("header")]
              /\ pc' = [pc EXCEPT ![i] = "check_result"]
              /\ UNCHANGED <<invoices, rows_by, persisted_ok>>
         ELSE /\ invoices' = [invoices EXCEPT ![invoice_id[i]] = @ + 1]
              /\ rows_by' = [rows_by EXCEPT ![i] = @ + 1]
              /\ pc' = [pc EXCEPT ![i] = "write_line_items"]
              /\ UNCHANGED <<result, persisted_ok>>
    /\ UNCHANGED <<event, source_file, invoice_id, raw_message, message, e>>
    /\ UNCHANGED <<line_items, metrics, failed_bucket, now, started, prior_ok>>
    /\ UNCHANGED <<recorder_calls, appended, persister_calls, bucket_calls, bucket_puts, last_key>>
    /\ UNCHANGED <<completed, call>>

\* step (c), second half: the line-item rows are inserted, or refused
WriteLineItems(i) ==
    /\ pc[i] = "write_line_items"
    /\ \E ok \in BOOLEAN :
         IF ~ok
         THEN /\ result' = [result EXCEPT ![i] = WriteFailed("line_items")]
              /\ UNCHANGED <<line_items, rows_by, persisted_ok>>
         ELSE /\ line_items' = [line_items EXCEPT ![invoice_id[i]] =
                                    @ + LineItemCount(invoice_id[i])]
              /\ rows_by' = [rows_by EXCEPT ![i] = @ + LineItemCount(invoice_id[i])]
              /\ result' = [result EXCEPT ![i] = Written(1 + LineItemCount(invoice_id[i]))]
              /\ persisted_ok' = persisted_ok \cup {invoice_id[i]}
    /\ pc' = [pc EXCEPT ![i] = "check_result"]
    /\ UNCHANGED <<event, source_file, invoice_id, raw_message, message, e>>
    /\ UNCHANGED <<invoices, metrics, failed_bucket, now, started, prior_ok>>
    /\ UNCHANGED <<recorder_calls, appended, persister_calls, bucket_calls, bucket_puts, last_key>>
    /\ UNCHANGED <<completed, call>>

\* the result not looked at: a failed write is taken for a written invoice
CheckResult_NoRaise(i) ==
    /\ pc[i] = "check_result"
    /\ pc' = [pc EXCEPT ![i] = "record_success"]
    /\ UNCHANGED <<locals, tables, metrics, failed_bucket, now, started, counts, history>>
    /\ UNCHANGED <<completed, call>>

\* if not result.success: raise RuntimeError
CheckResult(i) ==
    /\ pc[i] = "check_result"
    /\ IF ~result[i].success
       THEN Raise(i, "RuntimeError")
       ELSE /\ pc' = [pc EXCEPT ![i] = "record_success"]
            /\ UNCHANGED e
    /\ UNCHANGED <<event, source_file, invoice_id, raw_message, message, result>>
    /\ UNCHANGED <<tables, metrics, failed_bucket, now, started, counts, history>>
    /\ UNCHANGED <<completed, call>>

\* ------------------------------------------------------------------ telemetry
\* the row write_extraction_metrics appends
MetricsRow(i, success) ==
    [invoice_id |-> invoice_id[i], source_file |-> source_file[i],
     success |-> success, error_message |-> e[i]]

\* a statement after the success row is appended raises inside the try block
RecordSuccess_ThenRaises(i) ==
    /\ pc[i] = "record_success"
    /\ recorder_calls' = [recorder_calls EXCEPT ![i] = @ + 1]
    /\ \E ok \in BOOLEAN :
         IF ok
         THEN /\ metrics' = Append(metrics, MetricsRow(i, TRUE))
              /\ appended' = [appended EXCEPT ![i] = Append(@, TRUE)]
              /\ Raise(i, "AttributeError")
         ELSE /\ Raise(i, "TelemetryError")
              /\ UNCHANGED <<metrics, appended>>
    /\ UNCHANGED <<event, source_file, invoice_id, raw_message, message, result>>
    /\ UNCHANGED <<tables, failed_bucket, now, started, history>>
    /\ UNCHANGED <<persister_calls, rows_by, bucket_calls, bucket_puts, last_key>>
    /\ UNCHANGED <<completed, call>>

\* write_extraction_metrics(..., success=True) inside the try block: when it
\* raises, the except clause takes over
RecordSuccess(i) ==
    /\ pc[i] = "record_success"
    /\ recorder_calls' = [recorder_calls EXCEPT ![i] = @ + 1]
    /\ \E ok \in BOOLEAN :
         IF ok
         THEN /\ metrics' = Append(metrics, MetricsRow(i, TRUE))
              /\ appended' = [appended EXCEPT ![i] = Append(@, TRUE)]
              /\ pc' = [pc EXCEPT ![i] = "done"]
              /\ completed' = completed + 1
              /\ UNCHANGED e
         ELSE /\ Raise(i, "TelemetryError")
              /\ UNCHANGED <<metrics, appended, completed>>
    /\ UNCHANGED <<event, source_file, invoice_id, raw_message, message, result>>
    /\ UNCHANGED <<tables, failed_bucket, now, started, history>>
    /\ UNCHANGED <<persister_calls, rows_by, bucket_calls, bucket_puts, last_key>>
    /\ UNCHANGED call

\* ------------------------------------------------------------ the failure path
\* the failure row written with the success call's flag
FailureMetrics_FlagsSuccess(i) ==
    /\ pc[i] = "failed"
    /\ recorder_calls' = [recorder_calls EXCEPT ![i] = @ + 1]
    /\ \E ok \in BOOLEAN :
         IF ok
         THEN /\ metrics' = Append(metrics, MetricsRow(i, TRUE))
              /\ appended' = [appended EXCEPT ![i] = Append(@, TRUE)]
         ELSE UNCHANGED <<metrics, appended>>
    /\ pc' = [pc EXCEPT ![i] = "capture"]
    /\ UNCHANGED <<locals, tables, failed_bucket, now, started, history>>
    /\ UNCHANGED <<persister_calls, rows_by, bucket_calls, bucket_puts, last_key>>
    /\ UNCHANGED <<completed, call>>

\* the failure row written outside any try: when the recorder raises, the
\* exception leaves the handler
FailureMetrics_Unguarded(i) ==
    /\ pc[i] = "failed"
    /\ recorder_calls' = [recorder_calls EXCEPT ![i] = @ + 1]
    /\ \E ok \in BOOLEAN :
         IF ok
         THEN /\ metrics' = Append(metrics, MetricsRow(i, FALSE))
              /\ appended' = [appended EXCEPT ![i] = Append(@, FALSE)]
              /\ pc' = [pc EXCEPT ![i] = "capture"]
         ELSE /\ pc' = [pc EXCEPT ![i] = "escaped"]
              /\ UNCHANGED <<metrics, appended>>
    /\ UNCHANGED <<locals, tables, failed_bucket, now, started, history>>
    /\ UNCHANGED <<persister_calls, rows_by, bucket_calls, bucket_puts, last_key>>
    /\ UNCHANGED <<completed, call>>

\* write_extraction_metrics(..., success=False) under try/except: pass
FailureMetrics(i) ==
    /\ pc[i] = "failed"
    /\ recorder_calls' = [recorder_calls EXCEPT ![i] = @ + 1]
    /\ \E ok \in BOOLEAN :
         IF ok
         THEN /\ metrics' = Append(metrics, MetricsRow(i, FALSE))
              /\ appended' = [appended EXCEPT ![i] = Append(@, FALSE)]
         ELSE UNCHANGED <<metrics, appended>>
    /\ pc' = [pc EXCEPT ![i] = "capture"]
    /\ UNCHANGED <<locals, tables, failed_bucket, now, started, history>>
    /\ UNCHANGED <<persister_calls, rows_by, bucket_calls, bucket_puts, last_key>>
    /\ UNCHANGED <<completed, call>>

\* str(e): the RuntimeError of the handler quotes result.error, any other
\* exception says what it is
ErrorMessage(i) ==
    IF e[i] = "RuntimeError"
    THEN <<"BigQuery write failed: ", result[i].error>>
    ELSE <<e[i]>>

\* _create_error_record: the fields of the record the claims read
CreateErrorRecord(i) ==
    [source_file |-> source_file[i], invoice_id |-> invoice_id[i],
     error_type |-> e[i], error_message |-> ErrorMessage(i),
     is_validation_error |-> e[i] = "ValidationError",
     has_message |-> message[i], has_raw_message |-> raw_message[i]]

\* the capture left out when the envelope was never parsed
ErrorCapture_SkipsUnparsed(i) ==
    /\ pc[i] = "capture"
    /\ IF ~message[i]
       THEN UNCHANGED <<bucket_calls, last_key, failed_bucket, bucket_puts>>
       ELSE /\ bucket_calls' = [bucket_calls EXCEPT ![i] = @ + 1]
            /\ LET key == GenerateErrorFilename(source_file[i], invoice_id[i], now)
               IN  /\ last_key' = [last_key EXCEPT ![i] = key]
                   /\ \E ok \in BOOLEAN :
                        IF ok
                        THEN /\ failed_bucket' = (key :> CreateErrorRecord(i)) @@ failed_bucket
                             /\ bucket_puts' = [bucket_puts EXCEPT ![i] = @ + 1]
                        ELSE UNCHANGED <<failed_bucket, bucket_puts>>
    /\ pc' = [pc EXCEPT ![i] = "done"]
    /\ completed' = completed + 1
    /\ UNCHANGED <<locals, tables, metrics, now, started, history>>
    /\ UNCHANGED <<recorder_calls, appended, persister_calls, rows_by>>
    /\ UNCHANGED call

\* the path taken from the invoice id whenever one is bound
ErrorCapture_KeyedByInvoice(i) ==
    /\ pc[i] = "capture"
    /\ bucket_calls' = [bucket_calls EXCEPT ![i] = @ + 1]
    /\ LET key == GenerateErrorFilename(
                      IF Known(invoice_id[i]) THEN Unknown ELSE source_file[i],
                      invoice_id[i], now)
       IN  /\ last_key' = [last_key EXCEPT ![i] = key]
           /\ \E ok \in BOOLEAN :
                IF ok
                THEN /\ failed_bucket' = (key :> CreateErrorRecord(i)) @@ failed_bucket
                     /\ bucket_puts' = [bucket_puts EXCEPT ![i] = @ + 1]
                ELSE UNCHANGED <<failed_bucket, bucket_puts>>
    /\ pc' = [pc EXCEPT ![i] = "done"]
    /\ completed' = completed + 1
    /\ UNCHANGED <<locals, tables, metrics, now, started, history>>
    /\ UNCHANGED <<recorder_calls, appended, persister_calls, rows_by>>
    /\ UNCHANGED call

\* _write_failure_to_bucket under try/except: the path is generated (when
\* it is named by the time, the clock is read: it has not run backwards since
\* it was last read), storage.write puts the record at the path, replacing
\* what was there, or raises
ErrorCapture(i) ==
    /\ pc[i] = "capture"
    /\ bucket_calls' = [bucket_calls EXCEPT ![i] = @ + 1]
    /\ \E t \in (IF Known(source_file[i]) \/ Known(invoice_id[i])
                  THEN {now} ELSE now..MaxTime) :
         /\ now' = t
         /\ LET key == GenerateErrorFilename(source_file[i], invoice_id[i], t)
            IN  /\ last_key' = [last_key EXCEPT ![i] = key]
                /\ \E ok \in BOOLEAN :
                     IF ok
                     THEN /\ failed_bucket' = (key :> CreateErrorRecord(i)) @@ failed_bucket
                          /\ bucket_puts' = [bucket_puts EXCEPT ![i] = @ + 1]
                     ELSE UNCHANGED <<failed_bucket, bucket_puts>>
    /\ pc' = [pc EXCEPT ![i] = "done"]
    /\ completed' = completed + 1
    /\ UNCHANGED <<locals, tables, metrics, started, history>>
    /\ UNCHANGED <<recorder_calls, appended, persister_calls, rows_by>>
    /\ UNCHANGED call

Step(i) ==
    \/ Setup(i)
    \/ Decode(i)
    \/ ValidateMessage(i)
    \/ ValidateInvoice(i)
    \/ ExistsCheck(i)
    \/ WriteHeader(i)
    \/ WriteLineItems(i)
    \/ CheckResult(i)
    \/ RecordSuccess(i)
    \/ FailureMetrics(i)
    \/ ErrorCapture(i)

Next ==
    \/ \E i \in Invocations, m \in Messages : Receive(i, m)
    \/ \E i \in Invocations : Step(i)

Spec == Init /\ [][Next]_vars

\* every invocation that can take a step of its own takes one in the end: the
\* handler is straight-line code, each statement of which returns or raises
FairSpec == Init /\ [][Next]_vars /\ \A i \in Invocations : WF_vars(Step(i))

\* ------------------------------------------------- one delivery at a time
\* Pub/Sub delivers the next payload only after the handler has returned.
ReceiveInTurn(i, m) ==
    /\ \A j \in Invocations : Free(j)
    /\ Receive(i, m)

SeqNext ==
    \/ \E i \in Invocations, m \in Messages : ReceiveInTurn(i, m)
    \/ \E i \in Invocations : Step(i)

SeqSpec == Init /\ [][SeqNext]_vars

\* --------------------------------------- _generate_error_filename on its own
Dirs == {<<>>, <<"b", "/">>, <<"g", "s", ":", "/", "/", "b", ".", "c", "/">>}
Names == {<<"a">>, <<"I", "-", "1">>, <<"x", "_", "p", "a", "g", "e">>,
          <<"p", "a", "g", "e", "3">>, <<"a", ".", "b">>}
Pages == {<<>>, PageTag \o <<"2">>, PageTag \o <<"1", "0">>}
Exts == {<<>>, <<".", "t">>}

\* the calls: a source file URI put together from a directory, a name, a page
\* suffix and an extension (a name with a dot in it has an extension), or
\* "unknown", or the empty string; an invoice id or none; a clock value
FnCalls ==
    {[kind |-> "path", dir |-> d, name |-> n, page |-> p, ext |-> x, inv |-> v, t |-> t] :
        d \in Dirs, n \in Names, p \in Pages, x \in Exts,
        v \in {Unknown, INV1}, t \in {0}}
    \cup
    {[kind |-> k, dir |-> <<>>, name |-> <<>>, page |-> <<>>, ext |-> <<>>, inv |-> v, t |-> t] :
        k \in {"unknown", "empty"}, v \in {Unknown, <<>>, INV1}, t \in 0..MaxTime}

FnSource(c) ==
    CASE c.kind = "path" -> c.dir \o c.name \o c.page \o c.ext
      [] c.kind = "unknown" -> Unknown
      [] OTHER -> <<>>

FnInit ==
    /\ HandlerInit
    /\ fn_in \in {c \in FnCalls : c.kind = "path" /\ RFind(c.name, ".") > 0 => c.ext # <<>>}
    /\ fn_out = NoReturn
    /\ hint_in = NoError
    /\ hint_out = NoHints

CallGenerateErrorFilename ==
    /\ ~fn_out.returned
    /\ fn_out' = [returned |-> TRUE,
                  path |-> GenerateErrorFilename(FnSource(fn_in), fn_in.inv, fn_in.t)]
    /\ UNCHANGED <<pc, locals, tables, metrics, failed_bucket, now, started, counts,
                   history, completed, fn_in, hint_in, hint_out>>

FnNext == CallGenerateErrorFilename

FnSpec == FnInit /\ [][FnNext]_vars

\* ------------------------------------------- _generate_remediation_hints alone
MaxErrors == 2

\* sub in s, of Python strings
Contains(s, sub) ==
    \E k \in 0..(Len(s) - Len(sub)) : SubSeq(s, k + 1, k + Len(sub)) = sub

\* ".".join(str(loc) for loc in err["loc"])
RECURSIVE JoinLoc(_)
JoinLoc(loc) ==
    IF loc = <<>> THEN <<>>
    ELSE IF Len(loc) = 1 THEN Head(loc)
    ELSE Head(loc) \o <<".">> \o JoinLoc(Tail(loc))

\* the type names pydantic gives the entries of errors()
GreaterThan == <<"g", "r", "e", "a", "t", "e", "r", "_", "t", "h", "a", "n">>
LessThanEqual == <<"l", "e", "s", "s", "_", "t", "h", "a", "n", "_", "e", "q", "u", "a", "l">>
Missing == <<"m", "i", "s", "s", "i", "n", "g">>
StringType == <<"s", "t", "r", "i", "n", "g", "_", "t", "y", "p", "e">>
IntType == <<"i", "n", "t", "_", "t", "y", "p", "e">>
Enum == <<"e", "n", "u", "m">>
TypeErrorInteger == <<"t", "y", "p", "e", "_", "e", "r", "r", "o", "r", ".", "i", "n", "t", "e", "g", "e", "r">>
ErrorTypes == {GreaterThan, LessThanEqual, Missing, StringType, IntType, Enum,
               TypeErrorInteger}

\* the locations: a field of the invoice, a field of its first line item
Locs == {<<<<"t", "o", "t", "a", "l">>>>,
         <<<<"l", "i">>, <<ToString(0)>>, <<"q", "t", "y">>>>}

ErrorEntries == [loc : Locs, type : ErrorTypes]

\* the errors the function is called with: a ValidationError of one to
\* MaxErrors entries, or an exception of another class
HintErrors ==
    {[validation |-> TRUE, type |-> "ValidationError", errors |-> es] :
        es \in UNION {[1..n -> ErrorEntries] : n \in 1..MaxErrors}}
    \cup
    {[validation |-> FALSE, type |-> t, errors |-> <<>>] :
        t \in {"JSONDecodeError", "RuntimeError", "TelemetryError"}}

ManualReview == [kind |-> "manual_review", field |-> <<>>]

\* every entry given the wrong-type hint, whatever its type
HintFor_Unclassified(err) == <<[kind |-> "wrong_type", field |-> JoinLoc(err.loc)]>>

\* the if / elif / elif of the loop body: the hints one entry appends
HintFor(err) ==
    LET field == JoinLoc(err.loc)
        error_type == err.type
    IN  IF Contains(error_type, GreaterThan) \/ Contains(error_type, <<"l", "e", "s", "s", "_", "t", "h", "a", "n">>)
        THEN <<[kind |-> "numeric_constraint", field |-> field]>>
        ELSE IF Contains(error_type, Missing)
        THEN <<[kind |-> "missing", field |-> field]>>
        ELSE IF Contains(error_type, StringType) \/ Contains(error_type, <<"t", "y", "p", "e", "_", "e", "r", "r", "o", "r">>)
        THEN <<[kind |-> "wrong_type", field |-> field]>>
        ELSE <<>>

\* for err in error.errors()
RECURSIVE ValidationHints(_)
ValidationHints(errors) ==
    IF errors = <<>> THEN <<>>
    ELSE HintFor(Head(errors)) \o ValidationHints(Tail(errors))

\* the function without its last if
GenerateRemediationHints_NoFallback(error) ==
    IF error.validation THEN ValidationHints(error.errors) ELSE <<>>

GenerateRemediationHints(error) ==
    LET hints == IF error.validation THEN ValidationHints(error.errors) ELSE <<>>
    IN  IF hints = <<>> THEN <<ManualReview>> ELSE hints

HintInit ==
    /\ HandlerInit
    /\ fn_in = NoCall
    /\ fn_out = NoReturn
    /\ hint_in \in HintErrors
    /\ hint_out = NoHints

CallGenerateRemediationHints ==
    /\ ~hint_out.returned
    /\ hint_out' = [returned |-> TRUE, hints |-> GenerateRemediationHints(hint_in)]
    /\ UNCHANGED <<pc, locals, tables, metrics, failed_bucket, now, started, counts,
                   history, completed, fn_in, fn_out, hint_in>>

HintNext == CallGenerateRemediationHints

HintSpec == HintInit /\ [][HintNext]_vars

\* ===================================================================== claims
AllFree == \A i \in Invocations : Free(i)
Failed(i) == e[i] # "none"

\* the stage whose exception the handler caught
FailedStage(i) ==
    CASE e[i] = "DecodeError" -> "decode"
      [] e[i] = "ValidationError" /\ ~message[i] -> "envelope"
      [] e[i] = "ValidationError" /\ message[i] -> "invoice"
      [] e[i] = "RuntimeError" -> "persistence"
      [] e[i] = "TelemetryError" -> "telemetry"
      [] OTHER -> "none"

\* the objects of the failed bucket whose record names this source file
ArtifactsFor(sf) == {k \in DOMAIN failed_bucket : failed_bucket[k].source_file = sf}

\* C1: whatever fails, no exception leaves handle_invoice_extracted: no
\* invocation ever ends with an exception escaping the handler.
C1_NoExceptionEscapes == \A i \in Invocations : pc[i] # "escaped"

\* C2: deliveries one after the other: a persist that begins after a persist
\* of the same invoice wrote it returns success, is_duplicate, rows_written 0,
\* inserts nothing, and the tables hold one header row and one set of
\* line-item rows for the invoice.
C2_SecondPersistIsDuplicate ==
    \A i \in Invocations :
        prior_ok[i] =>
            /\ pc[i] \notin {"write_header", "write_line_items"}
            /\ result[i] = Duplicate
            /\ rows_by[i] = 0
            /\ invoices[invoice_id[i]] = 1
            /\ line_items[invoice_id[i]] = LineItemCount(invoice_id[i])

C2_Witness ==
    \E i \in Invocations :
        /\ prior_ok[i] /\ pc[i] = "done" /\ ~Failed(i)
        /\ invoice_id[i] = INV1 /\ result[i].is_duplicate

\* C3 as claimed: an attempt that failed at decode, envelope validation,
\* invoice validation or persistence has appended exactly one metrics row,
\* with success = false.
C3_ExactlyOneFailureRecord ==
    \A i \in Invocations :
        pc[i] = "done" /\ FailedStage(i) \in {"decode", "envelope", "invoice", "persistence"}
            => appended[i] = <<FALSE>>

\* C3 as amended: such an attempt has called the recorder exactly once and
\* has appended at most one metrics row, with success = false (none when the
\* call failed), and no row with success = true.
C3_AtMostOneFailureRecord ==
    \A i \in Invocations :
        pc[i] = "done" /\ FailedStage(i) \in {"decode", "envelope", "invoice", "persistence"}
            => /\ recorder_calls[i] = 1
               /\ appended[i] \in {<<>>, <<FALSE>>}

C3_Witness ==
    \E i \in Invocations :
        pc[i] = "done" /\ FailedStage(i) = "persistence" /\ appended[i] = <<FALSE>>

\* C4 as claimed: once n attempts have completed and none is running, the
\* metrics table holds exactly n rows.
C4_OneRecordPerAttempt == AllFree => Len(metrics) = completed

\* C4 as amended: an attempt appends at most one metrics row, a completed
\* attempt has called the recorder, and once n attempts have completed and
\* none is running the metrics table holds at most n rows.
C4_AtMostOneRecordPerAttempt ==
    /\ \A i \in Invocations : Len(appended[i]) <= 1
    /\ \A i \in Invocations : pc[i] = "done" => recorder_calls[i] >= 1
    /\ AllFree => Len(metrics) <= completed

C4_Witness ==
    /\ AllFree /\ completed = MaxAttempts /\ Len(metrics) = MaxAttempts
    /\ \E k \in 1..Len(metrics) : metrics[k].success
    /\ \E k \in 1..Len(metrics) : ~metrics[k].success

\* C5 as claimed: an attempt that failed envelope or invoice validation never
\* called the persister, inserted no row, and put exactly one error record
\* into the failed bucket.
C5_ExactlyOneErrorRecord ==
    \A i \in Invocations :
        pc[i] = "done" /\ FailedStage(i) \in {"envelope", "invoice"}
            => /\ persister_calls[i] = 0
               /\ rows_by[i] = 0
               /\ bucket_puts[i] = 1

\* C5 as amended: such an attempt never called the persister, inserted no
\* row, and attempted exactly one error record write, which put at most one
\* object (none when the write failed); a put object is in the bucket.
C5_OneErrorRecordAttempt ==
    \A i \in Invocations :
        pc[i] = "done" /\ FailedStage(i) \in {"envelope", "invoice"}
            => /\ persister_calls[i] = 0
               /\ rows_by[i] = 0
               /\ bucket_calls[i] = 1
               /\ bucket_puts[i] <= 1
               /\ bucket_puts[i] = 1 => last_key[i] \in DOMAIN failed_bucket

C5_Witness ==
    /\ \E i \in Invocations :
         pc[i] = "done" /\ FailedStage(i) = "invoice" /\ bucket_puts[i] = 1
    /\ \E i \in Invocations :
         pc[i] = "done" /\ FailedStage(i) = "envelope" /\ bucket_puts[i] = 1

\* C6 as claimed: after a failed attempt whose source file is known, the
\* failed bucket holds exactly one object for that source file.
C6_ExactlyOneArtifact ==
    \A i \in Invocations :
        pc[i] = "done" /\ Failed(i) /\ Known(source_file[i])
            => Cardinality(ArtifactsFor(source_file[i])) = 1

\* C6 as amended: an attempt writes at most one error record; when its source
\* file is known the path depends on the source file alone (not on the
\* invoice id, not on the clock), a written record is in the bucket, and the
\* bucket never holds more than one object for a source file.
C6_AtMostOneArtifact ==
    /\ \A i \in Invocations : bucket_calls[i] <= 1 /\ bucket_puts[i] <= 1
    /\ \A sf \in SourceFiles : Cardinality(ArtifactsFor(sf)) <= 1
    /\ \A i \in Invocations :
         pc[i] = "done" /\ Failed(i) /\ Known(source_file[i])
            => /\ last_key[i] = GenerateErrorFilename(source_file[i], Unknown, 0)
               /\ last_key[i] = GenerateErrorFilename(source_file[i], INV1, MaxTime)
               /\ bucket_puts[i] = 1 => last_key[i] \in DOMAIN failed_bucket

C6_Witness ==
    \E i, j \in Invocations :
        /\ i # j
        /\ pc[i] = "done" /\ pc[j] = "done"
        /\ source_file[i] = SF1 /\ source_file[j] = SF1
        /\ FailedStage(i) = "persistence" /\ FailedStage(j) = "persistence"
        /\ bucket_puts[i] = 1 /\ bucket_puts[j] = 1
        /\ Cardinality(ArtifactsFor(SF1)) = 1

\* C7: the path _generate_error_filename returns: with a source file, the
\* name it was put together from, without directory, page suffix and
\* extension, plus ".error.json", whatever the invoice id; else with an
\* invoice id, the id plus ".error.json"; else "unknown_", the second the
\* clock shows, ".error.json".
C7_KeyPriority ==
    fn_out.returned =>
        CASE fn_in.kind = "path" -> fn_out.path = fn_in.name \o ErrorSuffix
          [] fn_in.kind # "path" /\ fn_in.inv = INV1 -> fn_out.path = INV1 \o ErrorSuffix
          [] OTHER ->
                \E sec \in 0..MaxTime :
                    /\ 2 * sec <= fn_in.t /\ fn_in.t < 2 * sec + 2
                    /\ fn_out.path = Unknown \o <<"_", ToString(sec)>> \o ErrorSuffix

C7_Witness ==
    /\ fn_out.returned /\ fn_in.kind = "path"
    /\ fn_in.page # <<>> /\ fn_in.ext # <<>> /\ fn_in.dir # <<>> /\ fn_in.inv = INV1
    /\ fn_out.path = <<"a">> \o ErrorSuffix

\* C8: when the append of the success row fails after the invoice was
\* persisted, the attempt does not enter the failure path, writes no error
\* record and does not call the recorder again.
C8_TelemetryFailureSwallowed ==
    \A i \in Invocations :
        FailedStage(i) = "telemetry"
            => /\ pc[i] \notin {"failed", "capture"}
               /\ recorder_calls[i] <= 1
               /\ bucket_calls[i] = 0

\* C9: whatever the interleaving of concurrent invocations, no invoice id has
\* more than one header row or more than one copy of its line-item rows.
C9_NoDuplicateRows ==
    \A id \in InvoiceIds :
        invoices[id] <= 1 /\ line_items[id] <= LineItemCount(id)

\* C10: outside a persist in progress, the duplicate check finds an invoice
\* only if its header row and all its line-item rows are stored.
C10_ExistsOnlyIfComplete ==
    \A id \in InvoiceIds :
        (RowExists(id) /\ ~\E i \in Invocations :
                              pc[i] = "write_line_items" /\ invoice_id[i] = id)
            => line_items[id] >= LineItemCount(id)

\* the persister has returned to this attempt, and returned success = false
PersistFailed(i) ==
    /\ persister_calls[i] = 1
    /\ pc[i] \notin {"write_header", "write_line_items", "check_result"}
    /\ ~result[i].success

\* C11 as claimed: after the persister returned success = false the attempt
\* is in the failure path, appends no success row, calls the recorder for the
\* failure row, and has put into the failed bucket an error record whose
\* message carries the store's error.
C11_FailedWriteIsCaptured ==
    \A i \in Invocations :
        PersistFailed(i) =>
            /\ e[i] = "RuntimeError"
            /\ pc[i] \in {"failed", "capture", "done"}
            /\ appended[i] \in {<<>>, <<FALSE>>}
            /\ pc[i] = "done" =>
                  /\ recorder_calls[i] = 1
                  /\ bucket_puts[i] = 1
                  /\ failed_bucket[last_key[i]].error_message[2] = result[i].error

\* C11 as amended: ... and has attempted one error record write; when that
\* write succeeded the record in the failed bucket carries the store's error.
C11_FailedWriteIsRouted ==
    \A i \in Invocations :
        PersistFailed(i) =>
            /\ e[i] = "RuntimeError"
            /\ pc[i] \in {"failed", "capture", "done"}
            /\ appended[i] \in {<<>>, <<FALSE>>}
            /\ pc[i] = "done" =>
                  /\ recorder_calls[i] = 1
                  /\ bucket_calls[i] = 1
                  /\ bucket_puts[i] = 1 =>
                        /\ last_key[i] \in DOMAIN failed_bucket
                        /\ failed_bucket[last_key[i]].error_type = "RuntimeError"
                        /\ failed_bucket[last_key[i]].error_message[2] = result[i].error
                        /\ result[i].error \in {"header", "line_items"}

C11_Witness ==
    \E i \in Invocations :
        /\ PersistFailed(i) /\ pc[i] = "done" /\ bucket_puts[i] = 1
        /\ result[i].error = "line_items"
        /\ failed_bucket[last_key[i]].error_message = <<"BigQuery write failed: ", "line_items">>

\* the type names the function has a hint for
Recognised == {GreaterThan, LessThanEqual, Missing, StringType, TypeErrorInteger}

\* C12: the hint generator returns at least one hint for every error, and for
\* an error it has no hint for (an exception that is no ValidationError, or a
\* ValidationError none of whose entries has a type it knows) it returns
\* exactly the one manual-review hint.
C12_HintsNeverEmpty ==
    hint_out.returned =>
        /\ hint_out.hints # <<>>
        /\ (\A k \in DOMAIN hint_in.errors : hint_in.errors[k].type \notin Recognised)
              => hint_out.hints = <<ManualReview>>

C12_Witness ==
    /\ hint_out.returned
    /\ hint_in.validation
    /\ Len(hint_in.errors) = 2
    /\ \A k \in 1..2 : hint_in.errors[k].type \in {IntType, Enum}
    /\ hint_out.hints = <<ManualReview>>

\* the hint the specification names for each kind of violation
KindOf(type) ==
    CASE type \in {GreaterThan, LessThanEqual} -> "numeric_constraint"
      [] type = Missing -> "missing"
      [] type \in {StringType, IntType, TypeErrorInteger} -> "wrong_type"
      [] OTHER -> "other"

\* the dotted name of each location
FieldName(loc) ==
    IF Len(loc) = 1 THEN <<"t", "o", "t", "a", "l">>
    ELSE <<"l", "i", ".", "0", ".", "q", "t", "y">>

\* C16 as claimed: for a schema violation the hints are one per entry of the
\* error, in order, each naming the entry's field and classified by the kind
\* of its violation, so there are as many hints as violated fields.
C16_OneHintPerViolation ==
    (hint_out.returned /\ hint_in.validation) =>
        /\ Len(hint_out.hints) = Len(hint_in.errors)
        /\ \A k \in DOMAIN hint_in.errors :
              hint_out.hints[k] = [kind |-> KindOf(hint_in.errors[k].type),
                                   field |-> FieldName(hint_in.errors[k].loc)]

\* C16 as amended: for a schema violation the hints are one per entry whose
\* type the function recognises, in order, each naming the entry's field and
\* classified by its kind; entries of any other type add nothing, and when no
\* entry is recognised the list is the one manual-review hint.
C16_OneHintPerRecognisedViolation ==
    (hint_out.returned /\ hint_in.validation) =>
        LET known == SelectSeq(hint_in.errors, LAMBDA err : err.type \in Recognised)
        IN  IF known = <<>>
            THEN hint_out.hints = <<ManualReview>>
            ELSE /\ Len(hint_out.hints) = Len(known)
                 /\ \A k \in DOMAIN known :
                       hint_out.hints[k] = [kind |-> KindOf(known[k].type),
                                            field |-> FieldName(known[k].loc)]

C16_Witness ==
    /\ hint_out.returned
    /\ hint_in.validation
    /\ Len(hint_in.errors) = 2
    /\ hint_in.errors[1].type = IntType
    /\ hint_in.errors[2].type = Missing
    /\ Len(hint_in.errors[2].loc) = 3
    /\ hint_out.hints = <<[kind |-> "missing",
                           field |-> <<"l", "i", ".", "0", ".", "q", "t", "y">>]>>

\* calls of write_extraction_metrics(..., success=False) in this attempt: all
\* its calls of the recorder but the one of the try block
FailureRecorderCalls(i) ==
    recorder_calls[i] - (IF e[i] = "TelemetryError" \/ (pc[i] = "done" /\ ~Failed(i))
                         THEN 1 ELSE 0)

\* C13: an attempt that has caught an exception is in the failure path or
\* done, never left by an exception; once the failure row was attempted,
\* appended or not, the error record write is what follows, and at done both
\* were attempted once, whether or not either succeeded.
C13_FailurePathBestEffort ==
    \A i \in Invocations :
        Failed(i) =>
            /\ pc[i] \in {"failed", "capture", "done"}
            /\ pc[i] = "capture" => (FailureRecorderCalls(i) = 1 /\ bucket_calls[i] = 0)
            /\ pc[i] = "done" => (FailureRecorderCalls(i) = 1 /\ bucket_calls[i] = 1)
            /\ Len(appended[i]) <= 1 /\ bucket_puts[i] <= bucket_calls[i]

C13_Witness ==
    \E i \in Invocations :
        /\ pc[i] = "done" /\ Failed(i)
        /\ FailureRecorderCalls(i) = 1 /\ appended[i] = <<>>
        /\ bucket_calls[i] = 1 /\ bucket_puts[i] = 0

\* C14: a step that calls the recorder for the failure row is taken by an
\* attempt that has caught an exception and has not yet called the failed
\* bucket writer; a step that calls the failed bucket writer is taken by an
\* attempt that has caught an exception and has called the recorder for the
\* failure row, and it is the step that finishes the attempt.
C14_FailurePathOrder ==
    [][\A i \in Invocations :
          /\ FailureRecorderCalls(i)' > FailureRecorderCalls(i) =>
                /\ Failed(i) /\ pc[i] = "failed"
                /\ FailureRecorderCalls(i) = 0 /\ bucket_calls[i] = 0
                /\ pc'[i] = "capture" /\ bucket_calls'[i] = 0
          /\ bucket_calls'[i] > bucket_calls[i] =>
                /\ Failed(i) /\ pc[i] = "capture"
                /\ FailureRecorderCalls(i) = 1
                /\ pc'[i] = "done"]_vars

C14_Witness ==
    \E i \in Invocations :
        /\ pc[i] = "done" /\ Failed(i)
        /\ FailureRecorderCalls(i) = 1 /\ appended[i] = <<FALSE>>
        /\ bucket_calls[i] = 1 /\ bucket_puts[i] = 1

\* C15: an attempt whose persist reported a duplicate ends having appended
\* one success row and nothing else, called the failed bucket writer never,
\* and inserted no invoice row.
C15_DuplicateIsSuccess ==
    \A i \in Invocations :
        (pc[i] = "done" /\ result[i].is_duplicate) =>
            /\ appended[i] = <<TRUE>>
            /\ bucket_calls[i] = 0
            /\ rows_by[i] = 0

\* C17: every invocation that was delivered a message reaches done in the
\* end, whatever the other invocations do.
C17_EveryInvocationCompletes ==
    \A i \in Invocations : (pc[i] = "setup") ~> (pc[i] = "done")

\* the path is the one named by the time
NamedByTime(key) ==
    /\ Len(key) > Len(Unknown)
    /\ SubSeq(key, 1, Len(Unknown) + 1) = Unknown \o <<"_">>

C19_SuccessExcludesCapture ==
    \A i \in Invocations :
        /\ ~(\E k \in DOMAIN appended[i] : appended[i][k]) \/ bucket_calls[i] = 0
        /\ bucket_calls[i] > 0 => (Failed(i) /\ pc[i] = "done")
        /\ (\E k \in DOMAIN appended[i] : appended[i][k]) =>
              (~Failed(i) /\ pc[i] = "done" /\ appended[i] = <<TRUE>>)

C19_Witness ==
    \E i, j \in Invocations :
        /\ pc[i] = "done" /\ appended[i] = <<TRUE>> /\ bucket_calls[i] = 0
        /\ rows_by[i] > 0
        /\ pc[j] = "done" /\ Failed(j) /\ bucket_puts[j] = 1 /\ appended[j] = <<FALSE>>

====
